---- MODULE Spec2Model ----
(***************************************************************************)
(* A model of minion_banana_brawl: the Blueprint orchestrator's bounded    *)
(* retry loop (src/orchestrator.py) and the pre-warmed sandbox pool        *)
(* (src/sandbox.py).                                                       *)
(*                                                                         *)
(* SpecRun  : one call of MinionOrchestrator.run, statement by statement,  *)
(*            with every collaborator's outcome (value or exception)       *)
(*            chosen nondeterministically.                                 *)
(* SpecPool : SandboxPool under concurrent callers, detached replenishment *)
(*            threads and shutdown.                                        *)
(* SpecFull : the same pool, from the moment its queue is at capacity.     *)
(* SpecUse  : the pool with the callers writing files and running commands *)
(*            in the sandboxes they hold, and a Docker daemon whose stop / *)
(*            remove calls may fail.                                       *)
(* SpecDag  : DependencyDAG (src/context_engine.py) under any sequence of  *)
(*            add_node calls and traversal queries.                        *)
(***************************************************************************)
EXTENDS Integers, Sequences, FiniteSets, TLC

VARIABLES
    \* ---- MinionOrchestrator.run ----
    pc,            \* position of run()
    attempt,       \* the loop variable of `for attempt in range(MAX_RETRIES + 1)`; -1: unbound
    status,        \* the local `status` (a TaskStatus name)
    plan,          \* the local `plan`: "None", "empty" (code_patch == ""), "patch"
    context,       \* context["affected_tests"] is non-empty: "unset", "tests", "notests"
    sandbox,       \* the local `sandbox`: "unset", "held", "released"
    result,        \* the TaskResult built by a return statement
    outcome,       \* what the caller of run() gets: "running", "result", "raised"
    trace,         \* the collaborator calls made so far, in order
    \* ---- SandboxPool ----
    docker,        \* self._docker_client is set
    nextId,        \* number of sandbox ids handed out so far (uuid4 is fresh)
    container,     \* per sandbox: "isolated", "none" (fallback Sandbox), "unborn"
    is_alive,      \* per sandbox: Sandbox.is_alive
    pool,          \* self._pool, the ready queue (FIFO of sandbox ids)
    active,        \* the keys of self._active
    spawned,       \* started _create_and_queue_sandbox threads that have not run yet
    acquires,      \* acquire() calls begun so far
    cpc,           \* per caller: position in acquire / release
    csb,           \* per caller: its local `sandbox` (0: none)
    creuse,        \* per caller: the `reuse` argument of its release call
    spc,           \* position of shutdown()
    shutdowns,     \* completed shutdown() calls
    relmode,       \* per sandbox: how it was last released: "never", "reuse", "destroy"
    \* ---- Sandbox: files, commands, teardown ----
    flaky,         \* container.stop / container.remove can raise
    wsfiles,       \* per sandbox, the files put into its container: "clean", "own"
                   \* (written by the task holding it), "stale" (left by an earlier task)
    hostrepo,      \* ids of the sandboxes through which a file was written into repo_path
    \* ---- DependencyDAG ----
    nodes,         \* the keys of self.nodes
    dependencies,  \* per key of self.nodes: the dependencies of the CodeNode stored there
    forward,       \* self.forward (a missing key reads as the empty set)
    reverse,       \* self.reverse (a missing key reads as the empty set)
    declared,      \* the pairs <<b, a>> such that add_node was given a node b listing a
    query,         \* the last traversal query and what it returned
    topo,          \* the last topological_sort call and what it returned
    \* ---- ContextEngine ----
    filepath,      \* per key of self.nodes: the filepath of the CodeNode stored there
    indexed,       \* the CodeNodes _build_dag handed to add_node, in order, each with
                   \* the qualified name of the unit it was made from
    file_checksums,\* self._file_checksums, in insertion order
    disk,          \* per path: the revision of the bytes on disk, or Absent
    sha,           \* per revision: the 12 hex digits kept of its sha256
    writes,        \* file writes and removals so far
    calls,         \* traversals of the graph and calls of the engine that make them, so far
    call,          \* the last ContextEngine call and what it returned
    \* ---- the pool's lock ----
    lock,          \* SandboxPool._lock: the thread holding it, or "free"
    thr_op,        \* per thread: the pool operation it is running, or "idle"
    thr_at,        \* per thread: the step of that operation it is in
    \* ---- MCPServer and the Planner's tool loop ----
    domain,        \* task.domain of the task being run, or "unset"
    tools,         \* the names of the tools MinionAgent was constructed with
    turn,          \* turns of the tool loop of plan_and_write_code so far
    executed,      \* the last response of the model: the tool it asked for and
                   \* whether a handler ran ("end_turn": it was the final text)
    \* ---- get_pool ----
    global_pool,   \* sandbox._global_pool: 0 for None, else the instance
    constructed,   \* SandboxPool objects constructed so far
    gpc,           \* per thread: where it is in get_pool
    got,           \* per thread: what its last get_pool call returned (0: nothing yet)
    gets           \* per thread: get_pool calls started so far

runVars  == <<pc, attempt, status, plan, context, sandbox, result, outcome, trace>>
poolVars == <<docker, nextId, container, is_alive, pool, active, spawned, acquires,
              cpc, csb, creuse, spc, shutdowns, relmode>>
useVars  == <<flaky, wsfiles, hostrepo>>
dagVars  == <<nodes, dependencies, forward, reverse, declared, query, topo>>
engVars  == <<filepath, indexed, file_checksums, disk, sha, writes, calls, call>>
lockVars == <<lock, thr_op, thr_at>>
toolVars == <<domain, tools, turn, executed>>
gpVars   == <<global_pool, constructed, gpc, got, gets>>
auxVars  == <<lockVars, toolVars, gpVars>>
vars     == <<runVars, poolVars, useVars, dagVars, engVars, auxVars>>

\* what an orchestrator step / a pool step / a graph step leaves alone
notRun   == <<poolVars, useVars, dagVars, engVars, auxVars>>
notPool  == <<runVars, useVars, dagVars, engVars, auxVars>>
notDag   == <<runVars, poolVars, useVars, engVars, auxVars>>
notEng   == <<runVars, poolVars, useVars, auxVars>>
notAux   == <<runVars, poolVars, useVars, dagVars, engVars>>
engRest  == <<filepath, indexed, file_checksums, disk, sha, writes, call>>

----------------------------------------------------------------------------
(* Program constants *)

\* MinionOrchestrator.MAX_RETRIES
MAX_RETRIES == 2

\* get_pool(pool_size=2, ...) in MinionOrchestrator.__init__
pool_size == 2

(* Bounds of the model *)

\* sandbox ids that can be created in one behaviour
MaxIds == 4

\* shutdown() calls in one behaviour
MaxShutdowns == 1

\* acquire() calls in one behaviour
MaxAcquires == 2

\* largest `depth` argument of a traversal query
MaxDepth == 2

\* revisions of a file's bytes: 0 is the one _build_dag read
MaxRev == 1

\* file writes and removals in one behaviour
MaxWrites == 2

\* longest changed_files / target_files argument
MaxFiles == 2

\* get_pool calls one thread makes in one behaviour
MaxGets == 2

\* traversals of the graph (get_dependencies / get_dependents,
\* topological_sort) and engine calls that make them (get_test_selection,
\* hydrate_for_task) in one behaviour; none changes what a later one reads
MaxCalls == 1

Callers == {"c1", "c2"}
Ids     == 1..MaxIds

----------------------------------------------------------------------------
(* MinionOrchestrator.run *)

TaskStatus == {"PENDING", "RUNNING", "LINTING", "TESTING", "SUCCESS", "ESCALATED", "FAILED"}

NoResult == [status |-> "NONE", attempts |-> 0, pr_url |-> "", set |-> 0]

\* TaskResult(...): attempts defaults to 0, pr_url to ""; `set` counts the
\* TaskResult objects built by this run
TaskResult(st, att, url) ==
    [status |-> st, attempts |-> att, pr_url |-> url, set |-> result.set + 1]

Ev(e) == [ev |-> e, att |-> attempt + 1]

Log(es) == trace' = trace \o es

InitRun ==
    /\ pc = "acquire"
    /\ attempt = -1
    /\ status = "PENDING"
    /\ plan = "None"
    /\ context = "unset"
    /\ sandbox = "unset"
    /\ result = NoResult
    /\ outcome = "running"
    /\ trace = << >>

\* LoopNext with the range one too long
LoopNext_OffByOne ==
    IF attempt + 1 < MAX_RETRIES + 2
    THEN attempt' = attempt + 1 /\ pc' = "plan"
    ELSE attempt' = attempt /\ pc' = "post"

\* the `for attempt in range(MAX_RETRIES + 1)` header: the next iteration, or
\* the statement after the loop with the loop variable left at its last value
LoopNext ==
    IF attempt + 1 < MAX_RETRIES + 1
    THEN attempt' = attempt + 1 /\ pc' = "plan"
    ELSE attempt' = attempt /\ pc' = "post"

\* an exception raised inside the try block: control goes to `except Exception`
Raise(e) ==
    /\ pc' = "except"
    /\ Log(<<Ev(e)>>)
    /\ UNCHANGED <<attempt, status, plan, context, sandbox, result, outcome, notRun>>

\* line 122-123: sandbox = self.sandbox_pool.acquire(); status = RUNNING
Acquire ==
    /\ pc = "acquire"
    /\ sandbox' = "held"
    /\ status' = "RUNNING"
    /\ pc' = "hydrate"
    /\ Log(<<Ev("acquire")>>)
    /\ UNCHANGED <<attempt, plan, context, result, outcome, notRun>>

\* line 122 raises: the call is before the try, the exception leaves run()
AcquireRaises ==
    /\ pc = "acquire"
    /\ pc' = "done"
    /\ outcome' = "raised"
    /\ Log(<<Ev("acquire_raise")>>)
    /\ UNCHANGED <<attempt, status, plan, context, sandbox, result, notRun>>

\* line 128-131: context = self.context_engine.hydrate_for_task(...)
Hydrate ==
    /\ pc = "hydrate"
    /\ \E c \in {"tests", "notests"} : context' = c
    /\ pc' = "agent"
    /\ Log(<<Ev("hydrate")>>)
    /\ UNCHANGED <<attempt, status, plan, sandbox, result, outcome, notRun>>

HydrateRaises ==
    /\ pc = "hydrate"
    /\ Raise("hydrate_raise")

\* line 135-146: curated tools, MinionAgent(tools), agent.hydrate(context),
\* plan = None, and the first iteration of the loop
InitAgent ==
    /\ pc = "agent"
    /\ plan' = "None"
    /\ LoopNext
    /\ Log(<<Ev("agent")>>)
    /\ UNCHANGED <<status, context, sandbox, result, outcome, notRun>>

InitAgentRaises ==
    /\ pc = "agent"
    /\ Raise("agent_raise")

\* PlanEmpty asking the Planner again without consuming the attempt
PlanEmpty_NotCounted ==
    /\ pc = "plan"
    /\ plan' = "empty"
    /\ Log(<<Ev("plan_empty"), Ev("feed_error")>>)
    /\ pc' = "plan"
    /\ UNCHANGED <<attempt, status, context, sandbox, result, outcome, notRun>>

\* PlanEmpty without its `continue`: the empty patch goes on to be written
PlanEmpty_FallsThrough ==
    /\ pc = "plan"
    /\ plan' = "empty"
    /\ Log(<<Ev("plan_empty"), Ev("feed_error")>>)
    /\ pc' = "write"
    /\ UNCHANGED <<attempt, status, context, sandbox, result, outcome, notRun>>

\* line 150-155: the Planner returns an empty patch; feed_error; continue
PlanEmpty ==
    /\ pc = "plan"
    /\ plan' = "empty"
    /\ Log(<<Ev("plan_empty"), Ev("feed_error")>>)
    /\ LoopNext
    /\ UNCHANGED <<status, context, sandbox, result, outcome, notRun>>

\* line 150-152: the Planner returns a non-empty patch
PlanPatch ==
    /\ pc = "plan"
    /\ plan' = "patch"
    /\ pc' = "write"
    /\ Log(<<Ev("plan_patch")>>)
    /\ UNCHANGED <<attempt, status, context, sandbox, result, outcome, notRun>>

\* line 150: agent.plan_and_write_code raises (the model API call is not guarded)
PlanRaises ==
    /\ pc = "plan"
    /\ Raise("plan_raise")

\* line 159-162: sandbox.write_file(...); status = LINTING
WritePatch ==
    /\ pc = "write"
    /\ status' = "LINTING"
    /\ pc' = "lint"
    /\ Log(<<Ev("write")>>)
    /\ UNCHANGED <<attempt, plan, context, sandbox, result, outcome, notRun>>

WriteRaises ==
    /\ pc = "write"
    /\ Raise("write_raise")

\* line 164-176: lint passes; status = TESTING
LintPass ==
    /\ pc = "lint"
    /\ status' = "TESTING"
    /\ pc' = "test"
    /\ Log(<<Ev("lint_pass")>>)
    /\ UNCHANGED <<attempt, plan, context, sandbox, result, outcome, notRun>>

\* LintFail without its `continue`: the test gate runs all the same
LintFail_FallsThrough ==
    /\ pc = "lint"
    /\ status' = "TESTING"
    /\ pc' = "test"
    /\ Log(<<Ev("lint_fail"), Ev("feed_error")>>)
    /\ UNCHANGED <<attempt, plan, context, sandbox, result, outcome, notRun>>

\* line 164-171: lint fails; feed_error; status = RUNNING; continue
LintFail ==
    /\ pc = "lint"
    /\ status' = "RUNNING"
    /\ Log(<<Ev("lint_fail"), Ev("feed_error")>>)
    /\ LoopNext
    /\ UNCHANGED <<plan, context, sandbox, result, outcome, notRun>>

LintRaises ==
    /\ pc = "lint"
    /\ Raise("lint_raise")

\* line 177-184: the test set handed to sandbox.run_tests
TestSet == IF context = "tests" THEN "test_selected" ELSE "test_smoke"

\* line 177-197: tests pass; status = SUCCESS; break
TestPass ==
    /\ pc = "test"
    /\ status' = "SUCCESS"
    /\ pc' = "post"
    /\ Log(<<Ev(TestSet), Ev("test_pass")>>)
    /\ UNCHANGED <<attempt, plan, context, sandbox, result, outcome, notRun>>

\* line 177-191: tests fail; feed_error; status = RUNNING; continue
TestFail ==
    /\ pc = "test"
    /\ status' = "RUNNING"
    /\ Log(<<Ev(TestSet), Ev("test_fail"), Ev("feed_error")>>)
    /\ LoopNext
    /\ UNCHANGED <<plan, context, sandbox, result, outcome, notRun>>

TestRaises ==
    /\ pc = "test"
    /\ Raise("test_raise")

\* PublishGuard without the status test
PublishGuard_AnyPlan == plan # "None"

\* line 202: if status == TaskStatus.SUCCESS and plan
PublishGuard == status = "SUCCESS" /\ plan # "None"

\* what _create_pull_request adds to the trace: the call, and the failure of
\* the Publisher when the placeholder is what it returns
Published(url) ==
    IF url = "placeholder" THEN <<Ev("publish"), Ev("publish_fail")>> ELSE <<Ev("publish")>>

\* PostSuccess reporting the 0-based loop variable
PostSuccess_ZeroBased ==
    /\ pc = "post"
    /\ status = "SUCCESS" /\ plan # "None"
    /\ \E url \in {"url", "placeholder"} :
          /\ result' = TaskResult("SUCCESS", attempt, url)
          /\ Log(Published(url))
    /\ pc' = "finally"
    /\ UNCHANGED <<attempt, status, plan, context, sandbox, outcome, notRun>>

\* PostSuccess with _create_pull_request letting the failure through
PostSuccess_PublishRaises ==
    /\ pc = "post"
    /\ PublishGuard
    /\ \E url \in {"url", "placeholder"} :
          /\ Log(Published(url))
          /\ IF url = "placeholder"
             THEN result' = result /\ pc' = "except"
             ELSE result' = TaskResult("SUCCESS", attempt + 1, url) /\ pc' = "finally"
    /\ UNCHANGED <<attempt, status, plan, context, sandbox, outcome, notRun>>

\* line 202-215: _create_pull_request, which returns the URL of the pull
\* request or, any Exception of the Publisher being caught at line 264, the
\* placeholder; return TaskResult(SUCCESS, attempts=attempt + 1)
PostSuccess ==
    /\ pc = "post"
    /\ PublishGuard
    /\ \E url \in {"url", "placeholder"} :
          /\ result' = TaskResult("SUCCESS", attempt + 1, url)
          /\ Log(Published(url))
    /\ pc' = "finally"
    /\ UNCHANGED <<attempt, status, plan, context, sandbox, outcome, notRun>>

\* line 216-225: return TaskResult(ESCALATED, attempts=MAX_RETRIES + 1)
PostEscalate ==
    /\ pc = "post"
    /\ ~PublishGuard
    /\ result' = TaskResult("ESCALATED", MAX_RETRIES + 1, "")
    /\ pc' = "finally"
    /\ UNCHANGED <<attempt, status, plan, context, sandbox, outcome, trace, notRun>>

\* Except returning straight to the caller, the release left to the normal path
Except_NoRelease ==
    /\ pc = "except"
    /\ result' = TaskResult("FAILED", 0, "")
    /\ outcome' = "result"
    /\ pc' = "done"
    /\ UNCHANGED <<attempt, status, plan, context, sandbox, trace, notRun>>

\* line 227-235: except Exception: return TaskResult(FAILED) (attempts not given)
Except ==
    /\ pc = "except"
    /\ result' = TaskResult("FAILED", 0, "")
    /\ pc' = "finally"
    /\ UNCHANGED <<attempt, status, plan, context, sandbox, outcome, trace, notRun>>

\* line 236-239: finally: self.sandbox_pool.release(sandbox, reuse=False);
\* the pending return value is then delivered
Finally ==
    /\ pc = "finally"
    /\ sandbox' = "released"
    /\ outcome' = "result"
    /\ pc' = "done"
    /\ Log(<<Ev("release")>>)
    /\ UNCHANGED <<attempt, status, plan, context, result, notRun>>

\* line 239 raises: the exception replaces the pending return value
FinallyRaises ==
    /\ pc = "finally"
    /\ sandbox' = "released"
    /\ outcome' = "raised"
    /\ pc' = "done"
    /\ Log(<<Ev("release"), Ev("release_raise")>>)
    /\ UNCHANGED <<attempt, status, plan, context, result, notRun>>

NextRun ==
    \/ Acquire \/ AcquireRaises
    \/ Hydrate \/ HydrateRaises
    \/ InitAgent \/ InitAgentRaises
    \/ PlanEmpty \/ PlanPatch \/ PlanRaises
    \/ WritePatch \/ WriteRaises
    \/ LintPass \/ LintFail \/ LintRaises
    \/ TestPass \/ TestFail \/ TestRaises
    \/ PostSuccess \/ PostEscalate \/ Except
    \/ Finally \/ FinallyRaises

----------------------------------------------------------------------------
(* SandboxPool *)

Range(q) == {q[i] : i \in DOMAIN q}

\* SandboxPool.__init__: with a Docker client _prewarm starts pool_size
\* _create_and_queue_sandbox threads (joined with a timeout, so they may still
\* be running when the constructor returns); without one nothing is pre-warmed
InitPool ==
    /\ docker \in BOOLEAN
    /\ nextId = 0
    /\ container = [i \in Ids |-> "unborn"]
    /\ is_alive = [i \in Ids |-> FALSE]
    /\ pool = << >>
    /\ active = {}
    /\ spawned = IF docker THEN pool_size ELSE 0
    /\ acquires = 0
    /\ cpc = [c \in Callers |-> "idle"]
    /\ csb = [c \in Callers |-> 0]
    /\ creuse = [c \in Callers |-> FALSE]
    /\ spc = "idle"
    /\ shutdowns = 0
    /\ relmode = [i \in Ids |-> "never"]

\* _create_sandbox: what the new Sandbox wraps: an isolated container, or
\* nothing (no Docker client, or containers.run failed and the fallback is used)
Kinds == IF docker THEN {"isolated", "none"} ELSE {"none"}

NewId == nextId + 1

\* _create_sandbox: Sandbox(sandbox_id, container, repo_path) under a fresh id;
\* Sandbox.__init__ sets is_alive = container is not None
CreateSandbox(kind) ==
    /\ nextId < MaxIds
    /\ nextId' = NewId
    /\ container' = [container EXCEPT ![NewId] = kind]
    /\ is_alive' = [is_alive EXCEPT ![NewId] = (kind = "isolated")]

\* the sandboxes among S whose container.stop / container.remove may raise
FailSets(S) ==
    IF flaky THEN SUBSET {i \in S : container[i] = "isolated"} ELSE {{}}

\* DestroyRaises without the try / except around the teardown
DestroyRaises_Unguarded(fail) == fail

\* Sandbox.destroy, line 160-165: `except Exception` catches what stop and
\* remove raise and only prints it, so destroy itself raises nothing
DestroyRaises(fail) == FALSE

\* Sandbox.destroy on the sandboxes S, the teardown failing for those in F: the
\* container is stopped and removed (or left behind when that raised), and
\* is_alive = False either way
Destroyed(S, F) ==
    /\ is_alive' = [i \in Ids |-> IF i \in S THEN FALSE ELSE is_alive[i]]
    /\ container' = [i \in Ids |-> IF i \in S /\ container[i] = "isolated"
                                   THEN (IF i \in F THEN "orphan" ELSE "removed")
                                   ELSE container[i]]

\* _create_and_queue_sandbox, the body of a pre-warm or replenishment thread
Replenish ==
    /\ spawned > 0
    /\ \E kind \in Kinds : CreateSandbox(kind)
    /\ pool' = Append(pool, NewId)
    /\ spawned' = spawned - 1
    /\ UNCHANGED <<docker, active, acquires, cpc, csb, creuse, spc, shutdowns, relmode, notPool>>

\* AcquireGet reading the head of the queue without removing it
AcquireGet_Peek(c) ==
    /\ cpc[c] = "idle"
    /\ acquires < MaxAcquires
    /\ pool # << >>
    /\ csb' = [csb EXCEPT ![c] = Head(pool)]
    /\ acquires' = acquires + 1
    /\ cpc' = [cpc EXCEPT ![c] = "acq_got"]
    /\ UNCHANGED <<docker, nextId, container, is_alive, pool, active, spawned, creuse,
                   spc, shutdowns, relmode, notPool>>

\* acquire, line 254: self._pool.get(timeout) takes the head of the queue
AcquireGet(c) ==
    /\ cpc[c] = "idle"
    /\ acquires < MaxAcquires
    /\ pool # << >>
    /\ csb' = [csb EXCEPT ![c] = Head(pool)]
    /\ pool' = Tail(pool)
    /\ acquires' = acquires + 1
    /\ cpc' = [cpc EXCEPT ![c] = "acq_got"]
    /\ UNCHANGED <<docker, nextId, container, is_alive, active, spawned, creuse,
                   spc, shutdowns, relmode, notPool>>

\* acquire, line 255-260: record the sandbox as active, start the refill
\* thread, return the sandbox
AcquireActivate(c) ==
    /\ cpc[c] = "acq_got"
    /\ active' = active \cup {csb[c]}
    /\ spawned' = spawned + 1
    /\ cpc' = [cpc EXCEPT ![c] = "holding"]
    /\ UNCHANGED <<docker, nextId, container, is_alive, pool, acquires, csb, creuse,
                   spc, shutdowns, relmode, notPool>>

\* acquire, line 254 and 261: the timeout expires on an empty queue (Empty)
AcquireTimeout(c) ==
    /\ cpc[c] = "idle"
    /\ acquires < MaxAcquires
    /\ pool = << >>
    /\ acquires' = acquires + 1
    /\ cpc' = [cpc EXCEPT ![c] = "acq_empty"]
    /\ UNCHANGED <<docker, nextId, container, is_alive, pool, active, spawned, csb, creuse,
                   spc, shutdowns, relmode, notPool>>

\* AcquireOnDemand giving up: the caller gets an error instead of a sandbox
AcquireOnDemand_Fails(c) ==
    /\ cpc[c] = "acq_empty"
    /\ cpc' = [cpc EXCEPT ![c] = "idle"]
    /\ UNCHANGED <<docker, nextId, container, is_alive, pool, active, spawned, acquires,
                   csb, creuse, spc, shutdowns, relmode, notPool>>

\* acquire, line 262-266: create a sandbox on demand, record it as active,
\* return it (no refill thread on this path)
AcquireOnDemand(c) ==
    /\ cpc[c] = "acq_empty"
    /\ \E kind \in Kinds : CreateSandbox(kind)
    /\ csb' = [csb EXCEPT ![c] = NewId]
    /\ active' = active \cup {NewId}
    /\ cpc' = [cpc EXCEPT ![c] = "holding"]
    /\ UNCHANGED <<docker, pool, spawned, acquires, creuse, spc, shutdowns, relmode, notPool>>

\* ReleasePop leaving the sandbox in the active set
ReleasePop_KeepsActive(c, reuse) ==
    /\ cpc[c] = "holding"
    /\ creuse' = [creuse EXCEPT ![c] = reuse]
    /\ relmode' = [relmode EXCEPT ![csb[c]] = IF reuse THEN "reuse" ELSE "destroy"]
    /\ cpc' = [cpc EXCEPT ![c] = "rel_branch"]
    /\ UNCHANGED <<docker, nextId, container, is_alive, pool, active, spawned, acquires, csb,
                   spc, shutdowns, notPool>>

\* release, line 274-275: self._active.pop(sandbox.sandbox_id, None)
ReleasePop(c, reuse) ==
    /\ cpc[c] = "holding"
    /\ active' = active \ {csb[c]}
    /\ creuse' = [creuse EXCEPT ![c] = reuse]
    /\ relmode' = [relmode EXCEPT ![csb[c]] = IF reuse THEN "reuse" ELSE "destroy"]
    /\ cpc' = [cpc EXCEPT ![c] = "rel_branch"]
    /\ UNCHANGED <<docker, nextId, container, is_alive, pool, spawned, acquires, csb,
                   spc, shutdowns, notPool>>

\* ReuseBranch deciding on liveness alone
ReuseBranch_IgnoresFlag(c) == is_alive[csb[c]]

\* release, line 277: if reuse and sandbox.is_alive
ReuseBranch(c) == creuse[c] /\ is_alive[csb[c]]

\* what `git checkout -- . && git clean -fd` leaves of the files f: nothing
\* when it worked, everything when it did not
Cleaned(f, ok) == IF ok \/ f = "clean" THEN "clean" ELSE "stale"

\* release, line 278-281: run the clean command (its result is not looked
\* at), put the sandbox back
ReleaseRequeue(c) ==
    /\ cpc[c] = "rel_branch"
    /\ ReuseBranch(c)
    /\ \E ok \in BOOLEAN :
          wsfiles' = [wsfiles EXCEPT ![csb[c]] = Cleaned(wsfiles[csb[c]], ok)]
    /\ pool' = Append(pool, csb[c])
    /\ csb' = [csb EXCEPT ![c] = 0]
    /\ cpc' = [cpc EXCEPT ![c] = "idle"]
    /\ UNCHANGED <<docker, nextId, container, is_alive, active, spawned, acquires, creuse,
                   spc, shutdowns, relmode, flaky, hostrepo, runVars, dagVars, engVars, auxVars>>

\* release, line 282-286: destroy the sandbox, top the pool up when the queue
\* is below pool_size
ReleaseDestroy(c) ==
    /\ cpc[c] = "rel_branch"
    /\ ~ReuseBranch(c)
    /\ \E F \in FailSets({csb[c]}) :
          IF DestroyRaises(F # {})
          THEN /\ cpc' = [cpc EXCEPT ![c] = "rel_raised"]
               /\ UNCHANGED <<is_alive, container, spawned, csb>>
          ELSE /\ Destroyed({csb[c]}, F)
               /\ spawned' = IF Len(pool) < pool_size THEN spawned + 1 ELSE spawned
               /\ csb' = [csb EXCEPT ![c] = 0]
               /\ cpc' = [cpc EXCEPT ![c] = "idle"]
    /\ UNCHANGED <<docker, nextId, pool, active, acquires, creuse,
                   spc, shutdowns, relmode, notPool>>

\* shutdown is called
ShutdownBegin ==
    /\ spc = "idle"
    /\ shutdowns < MaxShutdowns
    /\ spc' = "drain"
    /\ UNCHANGED <<docker, nextId, container, is_alive, pool, active, spawned, acquires,
                   cpc, csb, creuse, shutdowns, relmode, notPool>>

\* shutdown, line 291-296: one round of the drain loop
ShutdownDrain ==
    /\ spc = "drain"
    /\ pool # << >>
    /\ pool' = Tail(pool)
    /\ \E F \in FailSets({Head(pool)}) :
          IF DestroyRaises(F # {})
          THEN spc' = "raised" /\ UNCHANGED <<is_alive, container>>
          ELSE Destroyed({Head(pool)}, F) /\ spc' = spc
    /\ UNCHANGED <<docker, nextId, active, spawned, acquires, cpc, csb, creuse,
                   shutdowns, relmode, notPool>>

\* shutdown, line 291 and 297-300: the queue is found empty; under the lock
\* every active sandbox is destroyed and the active set cleared
ShutdownClear ==
    /\ spc = "drain"
    /\ pool = << >>
    /\ \E F \in FailSets(active) :
          IF DestroyRaises(F # {})
          THEN spc' = "raised" /\ UNCHANGED <<is_alive, container, active, shutdowns>>
          ELSE /\ Destroyed(active, F)
               /\ active' = {}
               /\ shutdowns' = shutdowns + 1
               /\ spc' = "idle"
    /\ UNCHANGED <<docker, nextId, pool, spawned, acquires, cpc, csb, creuse,
                   relmode, notPool>>

\* Sandbox.write_file by the holder of a sandbox: put_archive into the
\* container's /workspace, or, for a sandbox without a container, a plain
\* write under repo_path, the directory every sandbox of the pool is given
WriteFile(c) ==
    /\ cpc[c] = "holding"
    /\ container[csb[c]] \in {"isolated", "none"}
    /\ IF container[csb[c]] = "isolated"
       THEN /\ wsfiles' = [wsfiles EXCEPT ![csb[c]] = IF @ = "stale" THEN "stale" ELSE "own"]
            /\ hostrepo' = hostrepo
       ELSE /\ hostrepo' = hostrepo \cup {csb[c]}
            /\ wsfiles' = wsfiles
    /\ UNCHANGED <<flaky, poolVars, runVars, dagVars, engVars, auxVars>>

\* how long the command given to exec runs: it ends within the timeout, ends
\* after it, or never ends
Behaviours == {"quick", "slow", "hang"}

\* _local_exec: subprocess.run(..., timeout=timeout); TimeoutExpired gives the
\* result with exit_code 124
LocalExec(beh) == IF beh = "quick" THEN "ret_own" ELSE "ret_124"

\* _docker_exec: container.exec_run is given no timeout and returns when the
\* command ends, with the command's exit code; what it raises (the container
\* is gone) is caught and gives exit_code 1
DockerExec(kind, beh) ==
    IF kind = "removed" THEN {"ret_1"}
    ELSE (IF kind = "orphan" THEN {"ret_1"} ELSE {}) \cup
         {CASE beh = "quick" -> "ret_own"
            [] beh = "slow"  -> "ret_late"
            [] beh = "hang"  -> "exec_blocked"}

\* Sandbox.exec by the holder of a sandbox, line 57-60: the container path when
\* the sandbox has a container, the local path otherwise; the caller is left
\* with the result ("ret_own": the command's exit code, in time; "ret_late":
\* the command's exit code, after more than the timeout; "ret_124"; "ret_1")
\* or inside a call that does not return ("exec_blocked")
Exec(c, beh) ==
    /\ cpc[c] = "holding"
    /\ \E r \in (IF container[csb[c]] = "none" THEN {LocalExec(beh)}
                  ELSE DockerExec(container[csb[c]], beh)) :
          cpc' = [cpc EXCEPT ![c] = r]
    /\ UNCHANGED <<docker, nextId, container, is_alive, pool, active, spawned, acquires,
                   csb, creuse, spc, shutdowns, relmode, notPool>>

Returned == {"ret_own", "ret_late", "ret_124", "ret_1"}

\* the caller goes on with the result of exec
ExecReturn(c) ==
    /\ cpc[c] \in Returned
    /\ cpc' = [cpc EXCEPT ![c] = "holding"]
    /\ UNCHANGED <<docker, nextId, container, is_alive, pool, active, spawned, acquires,
                   csb, creuse, spc, shutdowns, relmode, notPool>>

NextPool ==
    \/ Replenish
    \/ \E c \in Callers : AcquireGet(c)
    \/ \E c \in Callers : AcquireActivate(c)
    \/ \E c \in Callers : AcquireTimeout(c)
    \/ \E c \in Callers : AcquireOnDemand(c)
    \/ \E c \in Callers, reuse \in BOOLEAN : ReleasePop(c, reuse)
    \/ \E c \in Callers : ReleaseRequeue(c)
    \/ \E c \in Callers : ReleaseDestroy(c)
    \/ ShutdownBegin
    \/ ShutdownDrain
    \/ ShutdownClear

----------------------------------------------------------------------------

(* SandboxPool._lock *)

\* the threads that run pool operations: two callers, a replenishment
\* thread, and the thread that calls shutdown
Threads == Callers \cup {"refill", "closer"}

\* What each pool operation does, step by step.  "lock" is the entry of a
\* `with self._lock:` block and "unlock" its exit; "member" changes
\* self._active; "get" and "put" are the queue's own get and put; "provision"
\* is _create_sandbox, "exec" Sandbox.exec, "destroy" Sandbox.destroy; "spawn"
\* starts a replenishment thread.
Steps(o) ==
    CASE o = "acquire"         -> <<"get", "lock", "member", "unlock", "spawn">>       \* line 254-260
      [] o = "acquire_empty"   -> <<"get", "provision", "lock", "member", "unlock">>   \* line 254, 261-266
      [] o = "release_reuse"   -> <<"lock", "member", "unlock", "exec", "put">>        \* line 274-280
      [] o = "release_destroy" -> <<"lock", "member", "unlock", "destroy", "spawn">>   \* line 274-275, 283-286
      [] o = "replenish"       -> <<"provision", "put">>                               \* line 210-212
      [] o = "shutdown_idle"   -> <<"get", "destroy", "lock", "member", "unlock">>     \* line 291-300, nothing active
      [] o = "shutdown"        -> <<"get", "destroy", "lock", "destroy", "member", "unlock">>  \* line 291-300

\* the operations a thread runs
OpsOf(t) ==
    CASE t = "refill" -> {"replenish"}
      [] t = "closer" -> {"shutdown_idle", "shutdown"}
      [] OTHER        -> {"acquire", "acquire_empty", "release_reuse", "release_destroy"}

InitLock ==
    /\ lock = "free"
    /\ thr_op = [t \in Threads |-> "idle"]
    /\ thr_at = [t \in Threads |-> 0]

\* thread t enters the step `step`: the entry of a with block waits for the
\* lock and takes it, the exit gives it back
Enter(t, step) ==
    CASE step = "lock"   -> lock = "free" /\ lock' = t
      [] step = "unlock" -> lock' = "free"
      [] OTHER           -> lock' = lock

\* a thread that has called no operation yet, or whose operation has ended
\* its last step and returned, calls a pool operation and is in its first step
StartOp(t, o) ==
    /\ IF thr_op[t] = "idle" THEN TRUE ELSE thr_at[t] = Len(Steps(thr_op[t]))
    /\ Enter(t, Steps(o)[1])
    /\ thr_op' = [thr_op EXCEPT ![t] = o]
    /\ thr_at' = [thr_at EXCEPT ![t] = 1]
    /\ UNCHANGED <<toolVars, gpVars, notAux>>

\* a thread ends the step it is in and enters the next one
NextStep(t) ==
    /\ thr_op[t] # "idle"
    /\ thr_at[t] < Len(Steps(thr_op[t]))
    /\ Enter(t, Steps(thr_op[t])[thr_at[t] + 1])
    /\ thr_at' = [thr_at EXCEPT ![t] = @ + 1]
    /\ UNCHANGED <<thr_op, toolVars, gpVars, notAux>>

NextLock ==
    \/ \E t \in Threads : \E o \in OpsOf(t) : StartOp(t, o)
    \/ \E t \in Threads : NextStep(t)

----------------------------------------------------------------------------

(* MCPServer and the tool loop of MinionAgent *)

\* MCPServer._register_all_tools: the domain of every registered tool
Registry ==
    [read_file |-> "filesystem", write_file |-> "filesystem", list_directory |-> "filesystem",
     run_python_linter |-> "linting", run_type_check |-> "linting",
     run_tests |-> "testing", run_coverage |-> "testing",
     git_diff |-> "git", git_commit |-> "git", create_branch |-> "git",
     search_codebase |-> "search",
     read_plan |-> "memory", update_plan |-> "memory"]

\* the values task.domain takes: the domains of the registry and one that no
\* tool has
Domains == {"filesystem", "linting", "testing", "git", "search", "memory", "general"}

\* the tool names a response of the model can carry: the registered ones and
\* one that is not registered
ToolNames == DOMAIN Registry \cup {"shell"}

\* get_tools_for_domain: the tools of the domains memory, filesystem and d
get_tools_for_domain(d) ==
    {n \in DOMAIN Registry : Registry[n] \in {"memory", "filesystem"} \cup {d}}

\* _claude_loop / _openai_loop: max_turns
max_turns == 10

InitTools ==
    /\ domain = "unset"
    /\ tools = {}
    /\ turn = 0
    /\ executed = [tool_name |-> "", ran |-> FALSE]

\* run(), line 135-139: tools = self.mcp.get_tools_for_domain(task.domain);
\* MinionAgent(tools=tools)
CurateTools(d) ==
    /\ domain = "unset"
    /\ domain' = d
    /\ tools' = get_tools_for_domain(d)
    /\ UNCHANGED <<turn, executed, lockVars, gpVars, notAux>>

\* MCPServer.execute, line 198-202: the handler runs when the name is in the
\* registry
Handled(tool_name) == tool_name \in DOMAIN Registry

\* one turn of the tool loop: the response of the model asks for a tool by
\* name, and mcp_server.execute(block.name, block.input) is called
ToolUse(tool_name) ==
    /\ domain # "unset"
    /\ executed.tool_name # "end_turn"
    /\ turn < max_turns
    /\ turn' = turn + 1
    /\ executed' = [tool_name |-> tool_name, ran |-> Handled(tool_name)]
    /\ UNCHANGED <<domain, tools, lockVars, gpVars, notAux>>

\* the response carries the final text: the loop ends and the plan parsed
\* from the text is returned
FinalText ==
    /\ domain # "unset"
    /\ executed.tool_name # "end_turn"
    /\ turn < max_turns
    /\ executed' = [tool_name |-> "end_turn", ran |-> FALSE]
    /\ UNCHANGED <<domain, tools, turn, lockVars, gpVars, notAux>>

NextTools ==
    \/ \E d \in Domains : CurateTools(d)
    \/ \E n \in ToolNames : ToolUse(n)
    \/ FinalText

----------------------------------------------------------------------------

(* get_pool *)

\* threads that construct a MinionOrchestrator, each calling get_pool
Makers == {"m1", "m2", "m3"}

InitGetPool ==
    /\ global_pool = 0
    /\ constructed = 0
    /\ gpc = [t \in Makers |-> "idle"]
    /\ got = [t \in Makers |-> 0]
    /\ gets = [t \in Makers |-> 0]

\* get_pool, line 318: if _global_pool is None
GetPoolTest(t) ==
    /\ gpc[t] = "idle"
    /\ gets[t] < MaxGets
    /\ gets' = [gets EXCEPT ![t] = @ + 1]
    /\ gpc' = [gpc EXCEPT ![t] = IF global_pool = 0 THEN "construct" ELSE "return"]
    /\ UNCHANGED <<global_pool, constructed, got, lockVars, toolVars, notAux>>

\* get_pool, line 319: _global_pool = SandboxPool(...); the constructor
\* pre-warms the pool and returns after up to 30 s per thread
GetPoolConstruct(t) ==
    /\ gpc[t] = "construct"
    /\ constructed' = constructed + 1
    /\ global_pool' = constructed + 1
    /\ gpc' = [gpc EXCEPT ![t] = "return"]
    /\ UNCHANGED <<got, gets, lockVars, toolVars, notAux>>

\* get_pool, line 320: return _global_pool
GetPoolReturn(t) ==
    /\ gpc[t] = "return"
    /\ got' = [got EXCEPT ![t] = global_pool]
    /\ gpc' = [gpc EXCEPT ![t] = "idle"]
    /\ UNCHANGED <<global_pool, constructed, gets, lockVars, toolVars, notAux>>

NextGetPool ==
    \/ \E t \in Makers : GetPoolTest(t)
    \/ \E t \in Makers : GetPoolConstruct(t)
    \/ \E t \in Makers : GetPoolReturn(t)

InitAux == InitLock /\ InitTools /\ InitGetPool

----------------------------------------------------------------------------

(* DependencyDAG *)

\* node ids and dependency names; a name need not be the id of any node
DagIds == {"A", "B", "testB"}

\* one order in which a set of ids can be iterated
IdOrder == <<"A", "B", "testB">>

\* the elements of S in a sequence
RECURSIVE SeqOf(_)
SeqOf(S) == IF S = {} THEN << >> ELSE LET x == CHOOSE y \in S : TRUE IN <<x>> \o SeqOf(S \ {x})

Elems(q) == {q[i] : i \in DOMAIN q}

\* the orders in which the elements of S can be iterated
Orders(S) == {q \in [1..Cardinality(S) -> S] : Elems(q) = S}

\* `for dep_id in` a set of strings: the elements come in the order of their
\* hashes, which the interpreter salts anew in every process; ord ranks the
\* ids as the hashes of the process do
Iterate(ord, S) == SelectSeq(ord, LAMBDA x : x \in S) \o SeqOf(S \ Elems(ord))

NoQuery == [node_id |-> "", depth |-> 0, dependencies |-> << >>, dependents |-> << >>]

NoTopo == [called |-> FALSE, order |-> << >>]

\* DependencyDAG.__init__
InitDag ==
    /\ nodes = {}
    /\ dependencies = [i \in DagIds |-> {}]
    /\ forward = [i \in DagIds |-> {}]
    /\ reverse = [i \in DagIds |-> {}]
    /\ declared = {}
    /\ query = NoQuery
    /\ topo = NoTopo

\* AddNode replacing the forward set of a re-inserted id
AddNode_Supersedes(id, deps) ==
    /\ calls = 0
    /\ nodes' = nodes \cup {id}
    /\ dependencies' = [dependencies EXCEPT ![id] = deps]
    /\ forward' = [forward EXCEPT ![id] = deps]
    /\ reverse' = [d \in DagIds |-> IF d \in deps THEN reverse[d] \cup {id} ELSE reverse[d]]
    /\ declared' = declared \cup {<<id, d>> : d \in deps}
    /\ query' = NoQuery
    /\ topo' = NoTopo
    /\ UNCHANGED notDag

\* add_node: self.nodes[node.id] = node, then each dependency is added to the
\* forward set of the id and the id to the reverse set of the dependency. The
\* graph is built before it is traversed: the only caller is _build_dag, line
\* 216, run by ContextEngine.__init__.
AddNode(id, deps) ==
    /\ calls = 0
    /\ nodes' = nodes \cup {id}
    /\ dependencies' = [dependencies EXCEPT ![id] = deps]
    /\ forward' = [forward EXCEPT ![id] = @ \cup deps]
    /\ reverse' = [d \in DagIds |-> IF d \in deps THEN reverse[d] \cup {id} ELSE reverse[d]]
    /\ declared' = declared \cup {<<id, d>> : d \in deps}
    /\ query' = NoQuery
    /\ topo' = NoTopo
    /\ UNCHANGED notDag

\* TooDeep cutting the traversal one level early
TooDeep_OneEarly(current_depth, depth) == current_depth >= depth

\* get_dependencies / get_dependents, line 138 and 157: current_depth > depth
TooDeep(current_depth, depth) == current_depth > depth

\* the while loop of get_dependencies / get_dependents over the adjacency map
\* adj: pop the head of the queue, skip it when visited or too deep, else mark
\* it, append it to the result (out) when it is a node other than the start, and
\* queue its neighbours one level deeper
RECURSIVE Bfs(_, _, _, _, _, _, _)
Bfs(ord, adj, node_id, depth, queue, visited, out) ==
    IF queue = << >> THEN out
    ELSE LET current_id    == Head(queue)[1]
             current_depth == Head(queue)[2]
             next          == Iterate(ord, adj[current_id])
         IN  IF current_id \in visited \/ TooDeep(current_depth, depth)
             THEN Bfs(ord, adj, node_id, depth, Tail(queue), visited, out)
             ELSE Bfs(ord, adj, node_id, depth,
                      Tail(queue) \o [i \in DOMAIN next |-> <<next[i], current_depth + 1>>],
                      visited \cup {current_id},
                      IF current_id \in nodes /\ current_id # node_id
                      THEN Append(out, current_id) ELSE out)

\* get_dependencies going on to any depth
get_dependencies_AllLevels(ord, node_id, depth) ==
    Bfs(ord, forward, node_id, Cardinality(DOMAIN forward), << <<node_id, 0>> >>, {}, << >>)

\* the ids of the nodes get_dependencies returns, in the order returned
get_dependencies(ord, node_id, depth) ==
    Bfs(ord, forward, node_id, depth, << <<node_id, 0>> >>, {}, << >>)

\* the ids of the nodes get_dependents returns, in the order returned
get_dependents(ord, node_id, depth) ==
    Bfs(ord, reverse, node_id, depth, << <<node_id, 0>> >>, {}, << >>)

\* the rankings of the ids by their hashes
SetOrders == Orders(DagIds)

\* a caller asks for the dependencies and the dependents of an id, in a
\* process whose hashes rank the ids as ord does
Query(node_id, depth) ==
    /\ calls < MaxCalls
    /\ calls' = calls + 1
    /\ \E ord \in SetOrders :
          query' = [node_id |-> node_id, depth |-> depth,
                    dependencies |-> get_dependencies(ord, node_id, depth),
                    dependents |-> get_dependents(ord, node_id, depth)]
    /\ topo' = NoTopo
    /\ UNCHANGED <<nodes, dependencies, forward, reverse, declared, notEng, engRest>>

\* InDegree leaving every count at 0
InDegree_Zero == [n \in nodes |-> 0]

\* topological_sort, line 171-175: in_degree of a node is the number of nodes
\* that list it in their forward set
InDegree == [n \in nodes |-> Cardinality({m \in nodes : n \in forward[m]})]

\* topological_sort, line 179-186: the while loop. The head of the queue is
\* appended to the result and the in_degree of each of its dependencies that
\* is a node is decremented; those reaching 0 are queued, in the order the
\* forward set is iterated. The value is the set of results the loop can end with.
RECURSIVE Kahn(_, _, _)
Kahn(queue, in_degree, out) ==
    IF queue = << >> THEN {out}
    ELSE LET node == Head(queue)
             deps == forward[node] \cap nodes
             left == [n \in nodes |-> IF n \in deps THEN in_degree[n] - 1 ELSE in_degree[n]]
             zero == {d \in deps : left[d] = 0}
         IN  UNION {Kahn(Tail(queue) \o z, left, Append(out, node)) : z \in Orders(zero)}

\* topological_sort: the lists it can return; self.nodes is iterated in
\* insertion order, which is any order of the nodes, add_node calls for
\* different ids being independent of each other
topological_sort ==
    UNION {Kahn(SelectSeq(o, LAMBDA n : InDegree[n] = 0), InDegree, << >>) : o \in Orders(nodes)}

\* a caller asks for the topological order
TopoSort ==
    /\ calls < MaxCalls
    /\ calls' = calls + 1
    /\ \E r \in topological_sort : topo' = [called |-> TRUE, order |-> r]
    /\ query' = NoQuery
    /\ UNCHANGED <<nodes, dependencies, forward, reverse, declared, notEng, engRest>>

NextDag ==
    \/ \E id \in DagIds, deps \in SUBSET DagIds : AddNode(id, deps)
    \/ \E node_id \in DagIds, depth \in 0..MaxDepth : Query(node_id, depth)
    \/ TopoSort

----------------------------------------------------------------------------

\* no file written yet; stop and remove never fail
InitSound ==
    /\ flaky = FALSE
    /\ wsfiles = [i \in Ids |-> "clean"]
    /\ hostrepo = {}

----------------------------------------------------------------------------

(* Strings *)

\* the i-th character of s
Char(s, i) == SubSeq(s, i, i)

\* sub in s
contains(s, sub) ==
    \E i \in 1..(Len(s) - Len(sub) + 1) : SubSeq(s, i, i + Len(sub) - 1) = sub

\* s.startswith(prefix)
startswith(s, prefix) ==
    Len(prefix) <= Len(s) /\ SubSeq(s, 1, Len(prefix)) = prefix

\* s.endswith(suffix)
endswith(s, suffix) ==
    Len(suffix) <= Len(s) /\ SubSeq(s, Len(s) - Len(suffix) + 1, Len(s)) = suffix

\* s.replace(old, new) for an old of one character
RECURSIVE replace(_, _, _)
replace(s, old, new) ==
    IF Len(s) = 0 THEN s
    ELSE (IF Char(s, 1) = old THEN new ELSE Char(s, 1)) \o replace(SubSeq(s, 2, Len(s)), old, new)

\* s.rstrip(chars): trailing characters are dropped as long as they occur in chars
RECURSIVE rstrip(_, _)
rstrip(s, chars) ==
    IF Len(s) > 0 /\ contains(chars, Char(s, Len(s)))
    THEN rstrip(SubSeq(s, 1, Len(s) - 1), chars)
    ELSE s

UpperCase == "ABCDEFGHIJKLMNOPQRSTUVWXYZ"
LowerCase == "abcdefghijklmnopqrstuvwxyz"

\* s.lower()
RECURSIVE lower(_)
lower(s) ==
    IF Len(s) = 0 THEN s
    ELSE LET c == Char(s, 1)
             l == IF contains(UpperCase, c)
                  THEN Char(LowerCase, CHOOSE i \in 1..Len(UpperCase) : Char(UpperCase, i) = c)
                  ELSE c
         IN  l \o lower(SubSeq(s, 2, Len(s)))

----------------------------------------------------------------------------

(* ASTParser and ContextEngine *)

\* the id a path is turned into, line 49, 237 and 276
module_id(fpath) == rstrip(replace(replace(fpath, "/", "."), "\\", "."), ".py")

\* A file of a repository: its path as os.walk joins it, whether ast.parse
\* accepts it, the names it imports, and its class and function definitions in
\* the order of ast.walk (breadth first: the methods of a class come after the
\* top-level definitions), each with the qualified name of the unit and, for a
\* function, the names it calls.
File(path, parses, imports, defs) ==
    [path |-> path, parses |-> parses, imports |-> imports, defs |-> defs]

Def(node_type, qualname, name, called_funcs) ==
    [node_type |-> node_type, qualname |-> qualname, name |-> name,
     called_funcs |-> called_funcs]

\* the graph {A:[], B:[A], testB:[B]} as files under the repo root r
ScenarioRepo ==
    [files |-> << File("r/A.py", TRUE, << >>, << >>),
                  File("r/B.py", TRUE, <<"r.A">>, << >>),
                  File("r/testB.py", TRUE, <<"r.B">>, << >>) >>,
     others |-> {"r/new.py"}]

\* a chain of imports A <- B <- testB <- C <- D <- TestD <- testE
ChainRepo ==
    [files |-> << File("r/A.py", TRUE, << >>, << >>),
                  File("r/B.py", TRUE, <<"r.A">>, << >>),
                  File("r/testB.py", TRUE, <<"r.B">>, << >>),
                  File("r/C.py", TRUE, <<"r.testB">>, << >>),
                  File("r/D.py", TRUE, <<"r.C">>, << >>),
                  File("r/TestD.py", TRUE, <<"r.D">>, << >>),
                  File("r/testE.py", TRUE, <<"r.TestD">>, << >>) >>,
     others |-> {"r/new.py"}]

\* classes K1 and K2 with a method run each, next to a function; two files
\* whose names end in letters rstrip drops; a file ast.parse rejects; a file
\* that is no Python file
UnitsRepo ==
    [files |-> << File("r/svc.py", TRUE, << >>,
                       << Def("class", "K1", "K1", {}),
                          Def("class", "K2", "K2", {}),
                          Def("function", "helper", "helper", {}),
                          Def("function", "K1.run", "run", {"helper"}),
                          Def("function", "K2.run", "run", {}) >>),
                  File("r/test_svc.py", TRUE, <<"r.svc">>,
                       << Def("function", "test_run", "test_run", {"run"}) >>),
                  File("r/app.py", TRUE, <<"r.svc">>, << >>),
                  File("r/a.py", TRUE, << >>, << >>),
                  File("r/bad.py", FALSE, << >>, << >>),
                  File("r/README.md", FALSE, << >>, << >>) >>,
     others |-> {"r/new.py"}]

\* the default repo_root ".": os.path.join gives "./A.py", the import is "A"
DotRepo ==
    [files |-> << File("./A.py", TRUE, << >>, << >>),
                  File("./testA.py", TRUE, <<"A">>, << >>) >>,
     others |-> {"A.py"}]

Repos == {ScenarioRepo, ChainRepo, UnitsRepo, DotRepo}

\* the paths a caller can name: the files of the repo and paths not in it
Paths(repo) == {repo.files[i].path : i \in DOMAIN repo.files} \cup repo.others

\* os.walk lists the files of a directory in the order of the file system
WalkOrders(repo) ==
    {repo.files, [i \in DOMAIN repo.files |-> repo.files[Len(repo.files) + 1 - i]]}

CodeNode(id, fpath, node_type, deps, qualname) ==
    [id |-> id, filepath |-> fpath, node_type |-> node_type, dependencies |-> deps,
     qualname |-> qualname]

\* parse_file: nothing for a file ast.parse rejects; else the module node,
\* depending on the imports, then one node per class and function met by
\* ast.walk, its id the module name, a dot and the bare name of the definition
parse_file(file) ==
    IF ~file.parses THEN << >>
    ELSE LET module_name == module_id(file.path)
         IN  << CodeNode(module_name, file.path, "module", file.imports, "") >>
             \o [i \in DOMAIN file.defs |->
                   LET d == file.defs[i]
                   IN  CodeNode(module_name \o "." \o d.name, file.path, d.node_type,
                                IF d.node_type = "class" THEN <<module_name>>
                                ELSE <<module_name>> \o SeqOf(d.called_funcs),
                                d.qualname)]

\* the nodes _build_dag gets from the files it parses, in order
RECURSIVE Parsed(_)
Parsed(files) ==
    IF files = << >> THEN << >>
    ELSE (IF endswith(Head(files).path, ".py") THEN parse_file(Head(files)) ELSE << >>)
         \o Parsed(Tail(files))

\* the keys the adjacency maps can be read at: node ids, dependency names and
\* the ids of the paths a caller can name
EngineIds(repo) ==
    LET ns == Parsed(repo.files)
    IN  {ns[i].id : i \in DOMAIN ns}
        \cup UNION {Elems(ns[i].dependencies) : i \in DOMAIN ns}
        \cup {module_id(p) : p \in Paths(repo)}

\* DependencyDAG.__init__, and no file indexed
EmptyDag(ids) ==
    [nodes |-> {}, dependencies |-> [i \in ids |-> {}], forward |-> [i \in ids |-> {}],
     reverse |-> [i \in ids |-> {}], declared |-> {}, filepath |-> [i \in ids |-> ""],
     indexed |-> << >>]

\* add_node on the graph g: self.nodes[node.id] = node, then each dependency is
\* added to the forward set of the id and the id to the reverse set of the dependency
add_node(g, node) ==
    LET deps == Elems(node.dependencies)
    IN  [nodes |-> g.nodes \cup {node.id},
         dependencies |-> [g.dependencies EXCEPT ![node.id] = deps],
         forward |-> [g.forward EXCEPT ![node.id] = @ \cup deps],
         reverse |-> [d \in DOMAIN g.reverse |->
                        IF d \in deps THEN g.reverse[d] \cup {node.id} ELSE g.reverse[d]],
         declared |-> g.declared \cup {<<node.id, d>> : d \in deps},
         filepath |-> [g.filepath EXCEPT ![node.id] = node.filepath],
         indexed |-> Append(g.indexed, node)]

\* _build_dag, line 214-216: every node of every parsed file is added
RECURSIVE AddAll(_, _)
AddAll(g, ns) == IF ns = << >> THEN g ELSE AddAll(add_node(g, Head(ns)), Tail(ns))

\* _build_dag, line 219-220: the checksum of every Python file walked is kept
Checksums(files, h) ==
    LET py == SelectSeq(files, LAMBDA f : endswith(f.path, ".py"))
    IN  [i \in DOMAIN py |-> [fpath |-> py[i].path, checksum |-> h[0]]]

\* a path with no file behind it
Absent == -1

Revisions == 0..MaxRev

\* the digests a revision can have; two revisions may share one
Digests == {"d0", "d1"}

\* the digest functions, the digest of revision 0 being called d0
Hashes == {h \in [Revisions -> Digests] : h[0] = "d0"}

NoCall == [op |-> "", arg |-> << >>, result |-> << >>, deps |-> << >>, again |-> FALSE]

\* no ContextEngine in the process
InitNoEngine ==
    /\ filepath = [i \in DagIds |-> ""]
    /\ indexed = << >>
    /\ file_checksums = << >>
    /\ disk = << >>
    /\ sha = << >>
    /\ writes = 0
    /\ calls = 0
    /\ call = NoCall

\* ContextEngine.__init__: the DAG is built from the files of the repo
InitEngine ==
    /\ InitRun /\ InitPool /\ ~docker /\ InitSound /\ InitAux
    /\ \E repo \in Repos : \E files \in WalkOrders(repo) : \E h \in Hashes :
          LET g == AddAll(EmptyDag(EngineIds(repo)), Parsed(files))
          IN  /\ nodes = g.nodes
              /\ dependencies = g.dependencies
              /\ forward = g.forward
              /\ reverse = g.reverse
              /\ declared = g.declared
              /\ filepath = g.filepath
              /\ indexed = g.indexed
              /\ file_checksums = Checksums(files, h)
              /\ disk = [p \in Paths(repo) |-> IF p \in repo.others THEN Absent ELSE 0]
              /\ sha = h
    /\ query = NoQuery
    /\ topo = NoTopo
    /\ writes = 0
    /\ calls = 0
    /\ call = NoCall

\* some process writes a file: its bytes become another revision
FileWritten(p) ==
    /\ writes < MaxWrites
    /\ \E r \in Revisions \ {disk[p]} : disk' = [disk EXCEPT ![p] = r]
    /\ writes' = writes + 1
    /\ call' = NoCall
    /\ UNCHANGED <<filepath, indexed, file_checksums, sha, calls, dagVars, notEng>>

\* some process removes a file
FileRemoved(p) ==
    /\ writes < MaxWrites
    /\ disk[p] # Absent
    /\ disk' = [disk EXCEPT ![p] = Absent]
    /\ writes' = writes + 1
    /\ call' = NoCall
    /\ UNCHANGED <<filepath, indexed, file_checksums, sha, calls, dagVars, notEng>>

\* get_changed_files: the recorded paths that exist and whose checksum is not
\* the recorded one, in the order of self._file_checksums, which the method
\* leaves as it is
get_changed_files ==
    LET changed == SelectSeq(file_checksums,
                             LAMBDA e : disk[e.fpath] # Absent /\ sha[disk[e.fpath]] # e.checksum)
    IN  [i \in DOMAIN changed |-> changed[i].fpath]

GetChangedFiles ==
    /\ call' = [op |-> "get_changed_files", arg |-> << >>, result |-> get_changed_files,
                deps |-> << >>, again |-> call.op = "get_changed_files"]
    /\ UNCHANGED <<filepath, indexed, file_checksums, disk, sha, writes, calls, dagVars, notEng>>

NextFiles ==
    \/ \E p \in DOMAIN disk : FileWritten(p)
    \/ \E p \in DOMAIN disk : FileRemoved(p)
    \/ GetChangedFiles

\* the files of a repo are written and removed while the engine is asked
\* what changed
SpecFiles == InitEngine /\ [][NextFiles]_vars

\* one ranking of the ids of the engine's graph by their hashes
HashOrder == SeqOf(DOMAIN reverse)

\* that ranking and the opposite one: any two ids come in either order
HashOrders == {HashOrder, [i \in DOMAIN HashOrder |-> HashOrder[Len(HashOrder) + 1 - i]]}

\* line 279: "test" in node.filepath.lower() or node.filepath.startswith("test")
IsTestPath(fpath) == contains(lower(fpath), "test") \/ startswith(fpath, "test")

\* get_test_selection looking at the last changed file only
get_test_selection_LastOnly(changed_files) ==
    IF changed_files = << >> THEN {}
    ELSE {filepath[n] :
            n \in {m \in Elems(get_dependents(HashOrder, module_id(changed_files[Len(changed_files)]), 5)) :
                     IsTestPath(filepath[m])}}

\* get_test_selection traversing to depth 4
get_test_selection_Depth4(changed_files) ==
    {filepath[n] :
       n \in {m \in UNION {Elems(get_dependents(HashOrder, module_id(changed_files[i]), 4)) :
                             i \in DOMAIN changed_files} :
                IsTestPath(filepath[m])}}

\* get_test_selection, line 274-280: the set test_files; the nodes a
\* traversal returns are the same set whatever the order of iteration
get_test_selection(changed_files) ==
    {filepath[n] :
       n \in {m \in UNION {Elems(get_dependents(HashOrder, module_id(changed_files[i]), 5)) :
                             i \in DOMAIN changed_files} :
                IsTestPath(filepath[m])}}

\* the lists of paths a caller can pass
ArgLists == UNION {[1..k -> DOMAIN disk] : k \in 0..MaxFiles}

\* get_test_selection returns list(test_files): the set in any order
SelectTests(changed_files) ==
    /\ calls < MaxCalls
    /\ calls' = calls + 1
    /\ \E r \in Orders(get_test_selection(changed_files)) :
          call' = [op |-> "get_test_selection", arg |-> changed_files, result |-> r,
                   deps |-> << >>, again |-> FALSE]
    /\ UNCHANGED <<filepath, indexed, file_checksums, disk, sha, writes, dagVars, notEng>>

\* hydrate_for_task, line 236-251: the loop over target_files, from the
\* context ctx built so far
RECURSIVE hydrate_for_task(_, _, _)
hydrate_for_task(ord, target_files, ctx) ==
    IF target_files = << >> THEN ctx
    ELSE LET fpath      == Head(target_files)
             id         == module_id(fpath)
             deps       == get_dependencies(ord, id, 2)
             dependents == get_dependents(ord, id, 3)
             test_nodes == SelectSeq(dependents, LAMBDA n : contains(lower(filepath[n]), "test"))
         IN  hydrate_for_task(ord, Tail(target_files),
                 [dependency_context |-> ctx.dependency_context \o deps,
                  affected_tests |-> [i \in DOMAIN test_nodes |-> filepath[test_nodes[i]]]])

HydrateForTask(target_files) ==
    /\ calls < MaxCalls
    /\ calls' = calls + 1
    /\ \E ord \in HashOrders :
          LET ctx == hydrate_for_task(ord, target_files,
                                      [dependency_context |-> << >>, affected_tests |-> << >>])
          IN  call' = [op |-> "hydrate_for_task", arg |-> target_files,
                       result |-> ctx.affected_tests, deps |-> ctx.dependency_context,
                       again |-> FALSE]
    /\ UNCHANGED <<filepath, indexed, file_checksums, disk, sha, writes, dagVars, notEng>>

NextEngine ==
    \/ \E changed_files \in ArgLists : SelectTests(changed_files)
    \/ \E target_files \in ArgLists : HydrateForTask(target_files)

\* the engine of a repo is asked for tests and for context
SpecEngine == InitEngine /\ [][NextEngine]_vars

----------------------------------------------------------------------------

Init == InitRun /\ InitPool /\ InitSound /\ InitDag /\ InitNoEngine /\ InitAux

SpecRun == Init /\ [][NextRun]_vars

\* SandboxPool.__init__ with a Docker client, once _prewarm has joined all its
\* threads: the ready queue holds pool_size sandboxes
InitFull ==
    /\ docker = TRUE
    /\ nextId = pool_size
    /\ \E k \in [1..pool_size -> Kinds] :
          /\ container = [i \in Ids |-> IF i <= pool_size THEN k[i] ELSE "unborn"]
          /\ is_alive = [i \in Ids |-> i <= pool_size /\ k[i] = "isolated"]
    /\ pool = [i \in 1..pool_size |-> i]
    /\ active = {}
    /\ spawned = 0
    /\ acquires = 0
    /\ cpc = [c \in Callers |-> "idle"]
    /\ csb = [c \in Callers |-> 0]
    /\ creuse = [c \in Callers |-> FALSE]
    /\ spc = "idle"
    /\ shutdowns = 0
    /\ relmode = [i \in Ids |-> "never"]

InitAtCapacity == InitRun /\ InitFull /\ InitSound /\ InitDag /\ InitNoEngine /\ InitAux

\* the pool from the moment its ready queue holds the target capacity
SpecFull == InitAtCapacity /\ [][NextPool]_vars

SpecPool == Init /\ [][NextPool]_vars

\* no file written yet; with Docker, stop and remove may or may not fail
InitFlaky ==
    /\ flaky \in (IF docker THEN BOOLEAN ELSE {FALSE})
    /\ wsfiles = [i \in Ids |-> "clean"]
    /\ hostrepo = {}

InitUse == InitRun /\ InitPool /\ InitFlaky /\ InitDag /\ InitNoEngine /\ InitAux

NextUse ==
    \/ NextPool
    \/ \E c \in Callers : WriteFile(c)
    \/ \E c \in Callers, beh \in Behaviours : Exec(c, beh)
    \/ \E c \in Callers : ExecReturn(c)

SpecUse == InitUse /\ [][NextUse]_vars

\* the graph is built and queried in a process of its own: the pool is the
\* one of a machine without Docker, never used
InitGraph == Init /\ ~docker

SpecDag == InitGraph /\ [][NextDag]_vars

\* the lock, the tool loop and get_pool are each followed on their own, in a
\* process where nothing else runs
InitAlone == Init /\ ~docker

\* threads running pool operations under SandboxPool._lock
SpecLock == InitAlone /\ [][NextLock]_vars

\* a task's tools are curated and its Planner runs its tool loop
SpecTools == InitAlone /\ [][NextTools]_vars

\* threads calling get_pool
SpecGetPool == InitAlone /\ [][NextGetPool]_vars

----------------------------------------------------------------------------
(* Readings of the trace of run() *)

\* positions of the trace holding one of the events es
At(es) == {i \in DOMAIN trace : trace[i].ev \in es}

Count(es) == Cardinality(At(es))

\* event e was logged in (1-based) attempt k
Has(e, k) == \E i \in DOMAIN trace : trace[i].ev = e /\ trace[i].att = k

PlannerEvents == {"plan_empty", "plan_patch", "plan_raise"}
LintEvents    == {"lint_pass", "lint_fail", "lint_raise"}
TestEvents    == {"test_selected", "test_smoke", "test_pass", "test_fail", "test_raise"}
RaiseEvents   == {"acquire_raise", "hydrate_raise", "agent_raise", "plan_raise",
                  "write_raise", "lint_raise", "test_raise", "release_raise"}
\* faults raised where the try block catches them
CaughtEvents  == RaiseEvents \ {"acquire_raise", "release_raise"}

PlannerCalls == Count(PlannerEvents)
ReleaseCalls == Count({"release"})
Terminal     == {"SUCCESS", "ESCALATED", "FAILED"}

----------------------------------------------------------------------------
(* Claims about MinionOrchestrator.run, checked under SpecRun *)

\* C1: run() calls release on the sandbox it acquired exactly once on every
\* exit path: never twice, never before the acquisition, and once run() has
\* ended after acquiring (normally or through a fault in hydration, the
\* Planner, the patch write or a gate) exactly one release call was made.
C1_ReleaseExactlyOnce ==
    /\ ReleaseCalls <= 1
    /\ ReleaseCalls = 1 => sandbox = "released" /\ Count({"acquire"}) = 1
    /\ (pc = "done" /\ Count({"acquire"}) = 1) => ReleaseCalls = 1
    /\ (pc # "done" /\ sandbox = "held") => ReleaseCalls = 0

\* a run that ended after a fault in the patch write, with its one release
C1_Witness ==
    /\ pc = "done"
    /\ Count({"write_raise"}) = 1
    /\ result.status = "FAILED"
    /\ ReleaseCalls = 1

\* C2 (as claimed): every run() call returns a TaskResult with a terminal
\* status and no exception reaches the caller, whichever step raised; an
\* internal fault yields status FAILED.
C2_NoFaultEscapes ==
    pc = "done" =>
        /\ outcome = "result"
        /\ result.status \in Terminal
        /\ (Count(RaiseEvents) > 0 => result.status = "FAILED")

\* C3: with a Planner that returns an empty patch on every invocation (and no
\* collaborator raising), run() ends ESCALATED with attempts = 3 after exactly
\* 3 Planner invocations, and there is never a fourth invocation.
C3_AlwaysEmptyEscalates ==
    (Count({"plan_patch"}) = 0 /\ Count(RaiseEvents) = 0) =>
        /\ PlannerCalls <= 3
        /\ pc \in {"post", "finally", "done"} => PlannerCalls = 3
        /\ pc = "done" =>
              /\ outcome = "result"
              /\ result.status = "ESCALATED"
              /\ result.attempts = 3

\* the run of three empty patches, ended
C3_Witness ==
    /\ pc = "done"
    /\ Count({"plan_empty"}) = 3
    /\ Count({"plan_patch"}) = 0
    /\ result.status = "ESCALATED"

\* C4: whatever the Planner outputs and gate results, the Planner is invoked
\* at most MAX_RETRIES + 1 = 3 times; run() can always take its next step
\* until it has ended (each call returning), and when the pool calls have
\* returned it ends with exactly one TaskResult whose status is SUCCESS,
\* ESCALATED or FAILED.
C4_BoundedRetries ==
    /\ MAX_RETRIES + 1 = 3
    /\ PlannerCalls <= 3
    /\ \A k \in 1..3 : Cardinality({i \in At(PlannerEvents) : trace[i].att = k}) <= 1
    /\ pc # "done" => ENABLED NextRun
    /\ (pc = "done" /\ Count({"acquire_raise", "release_raise"}) = 0) =>
          /\ outcome = "result"
          /\ result.set = 1
          /\ result.status \in Terminal
          /\ result.status = "FAILED" <=> Count(CaughtEvents) > 0

\* a run that used the whole budget on Planner output and failing gates
C4_Witness ==
    /\ pc = "done"
    /\ PlannerCalls = 3
    /\ Count({"plan_patch"}) = 3
    /\ Count({"lint_fail"}) >= 1
    /\ Count({"test_fail"}) >= 1
    /\ result.status = "ESCALATED"

\* C5: a SUCCESS result reports as attempts the 1-based index of the first
\* (and only) attempt with a non-empty patch, a passing lint gate and a
\* passing test gate; lint failing in attempt 1 and both gates passing in
\* attempt 2 gives SUCCESS with attempts = 2.
C5_SuccessAttempts ==
    /\ result.status = "SUCCESS" =>
          /\ result.attempts \in 1..3
          /\ Has("plan_patch", result.attempts)
          /\ Has("lint_pass", result.attempts)
          /\ Has("test_pass", result.attempts)
          /\ \A j \in 1..3 : Has("test_pass", j) => j = result.attempts
    /\ (/\ pc = "done" /\ outcome = "result"
        /\ Has("lint_fail", 1) /\ Has("lint_pass", 2) /\ Has("test_pass", 2)) =>
          result.status = "SUCCESS" /\ result.attempts = 2

\* the scenario: lint fails in attempt 1, lint and test pass in attempt 2
C5_Witness ==
    /\ pc = "done"
    /\ outcome = "result"
    /\ Has("lint_fail", 1) /\ Has("lint_pass", 2) /\ Has("test_pass", 2)
    /\ result.attempts = 2

\* C6: in every attempt the lint gate runs before the test gate, the test
\* gate runs only in an attempt whose lint gate passed, and status SUCCESS is
\* reached only from an attempt in which lint and then test passed.
C6_LintBeforeTest ==
    /\ \A i \in At(TestEvents) :
          \E j \in At({"lint_pass"}) : j < i /\ trace[j].att = trace[i].att
    /\ \A i \in At(TestEvents) : \A j \in At(LintEvents) :
          trace[j].att = trace[i].att => j < i
    /\ pc = "test" => Has("lint_pass", attempt + 1)
    /\ status = "SUCCESS" =>
          \E j \in At({"lint_pass"}), i \in At({"test_pass"}) :
              j < i /\ trace[j].att = attempt + 1 /\ trace[i].att = attempt + 1

\* a test gate that ran (and failed) after its attempt's lint gate passed,
\* in a run whose first attempt stopped at a failing lint gate
C6_Witness ==
    /\ Has("lint_fail", 1)
    /\ Has("lint_pass", 2)
    /\ Has("test_fail", 2)

\* C7: the Publisher is invoked at most once per run and only after the test
\* gate has passed; a run that ends ESCALATED or FAILED never invoked it.
C7_PublishOnlyOnSuccess ==
    /\ Count({"publish"}) <= 1
    /\ \A i \in At({"publish"}) :
          /\ status = "SUCCESS"
          /\ \E j \in At({"test_pass"}) : j < i /\ trace[j].att = trace[i].att
    /\ result.status \in {"ESCALATED", "FAILED"} => Count({"publish"}) = 0
    /\ Count({"publish"}) = 1 => result.status = "SUCCESS"

\* a run that published and ended
C7_Witness ==
    /\ pc = "done"
    /\ outcome = "result"
    /\ Count({"publish"}) = 1
    /\ result.status = "SUCCESS"

----------------------------------------------------------------------------
(* Claims about SandboxPool, checked under SpecPool.  Callers release only  *)
(* a sandbox they hold, once per acquire.                                  *)

\* C8: a sandbox released with reuse=false never enters the ready queue or
\* the active set again and is never in the hands of a later acquire; once
\* that release has finished the sandbox is destroyed.
C8_DestroyedNeverReacquired ==
    \A s \in Ids : relmode[s] = "destroy" =>
        /\ s \notin Range(pool)
        /\ s \notin active
        /\ \A c \in Callers : csb[c] = s => cpc[c] = "rel_branch"
        /\ (\A c \in Callers : csb[c] # s) => ~is_alive[s] /\ container[s] # "isolated"

\* a container destroyed by release(reuse=false), and a caller holding another
\* sandbox out of the second acquire
C8_Witness ==
    \E s \in Ids, c \in Callers :
        /\ relmode[s] = "destroy"
        /\ container[s] = "removed"
        /\ acquires = 2
        /\ cpc[c] = "holding"
        /\ csb[c] # s

\* C9: no two callers have the same sandbox at the same time, a sandbox in a
\* caller's hands is not in the ready queue, and the queue holds no sandbox
\* twice.
C9_NeverShared ==
    /\ \A c, d \in Callers : (c # d /\ csb[c] # 0) => csb[c] # csb[d]
    /\ \A c \in Callers : csb[c] # 0 => csb[c] \notin Range(pool)
    /\ \A i, j \in DOMAIN pool : i # j => pool[i] # pool[j]

\* two callers holding a sandbox each while a third sandbox is ready
C9_Witness ==
    /\ \A c \in Callers : cpc[c] = "holding"
    /\ pool # << >>

\* C10: ready and active are disjoint in every reachable state.
C10_ReadyActiveDisjoint == Range(pool) \cap active = {}

\* a requeued sandbox is ready while another sandbox is active, after a shutdown
C10_Witness ==
    /\ \E s \in Range(pool) : relmode[s] = "reuse"
    /\ active # {}
    /\ shutdowns = 1

\* C11 (as claimed), checked under SpecFull: after one acquire() from the full
\* queue followed by release(handle, reuse=false), the released id is not in
\* the active set, and once every replenishment thread has finished the ready
\* queue holds exactly pool_size sandboxes.
C11_BackToCapacity ==
    \A s \in Ids :
        (/\ acquires = 1 /\ relmode[s] = "destroy"
         /\ shutdowns = 0 /\ spc = "idle"
         /\ \A c \in Callers : cpc[c] = "idle") =>
            /\ s \notin active
            /\ spawned = 0 => Len(pool) = pool_size

\* C12: an acquire whose get timed out on an empty queue always goes on (it is
\* never stuck and never fails the caller) by creating a sandbox of its own:
\* the caller ends up holding a newly created sandbox that is recorded in the
\* active set and is not in the ready queue.
C12_OnDemandAcquire ==
    /\ [](\A c \in Callers :
            /\ (cpc[c] = "acq_empty" /\ nextId < MaxIds) => ENABLED AcquireOnDemand(c)
            /\ (cpc[c] = "idle" /\ pool = << >> /\ acquires < MaxAcquires)
                  => ENABLED AcquireTimeout(c))
    /\ [][\A c \in Callers :
            (cpc[c] = "acq_empty" /\ cpc'[c] # "acq_empty") =>
                /\ cpc'[c] = "holding"
                /\ csb'[c] = nextId' /\ nextId' = nextId + 1
                /\ csb'[c] \in active'
                /\ csb'[c] \notin Range(pool')
                /\ container'[csb'[c]] \in {"isolated", "none"}]_vars

\* a pool built without Docker pre-warms nothing: with no release and no
\* shutdown so far its queue has always been empty, and both callers hold
\* distinct sandboxes that acquire created on demand
C12_Witness ==
    \E c, d \in Callers :
        /\ c # d
        /\ ~docker /\ shutdowns = 0 /\ spc = "idle"
        /\ \A s \in Ids : relmode[s] = "never"
        /\ cpc[c] = "holding" /\ cpc[d] = "holding"
        /\ csb[c] # csb[d]
        /\ {csb[c], csb[d]} \subseteq active
        /\ pool = << >>

\* C13 (as claimed): every acquire that returns a sandbox has started a
\* replenishment thread, whichever path it took.
C13_AcquireReplenishes ==
    [][\A c \in Callers :
          (cpc[c] # "holding" /\ cpc'[c] = "holding") => spawned' = spawned + 1]_vars

\* C14 (as claimed): once a shutdown call has completed the ready queue is
\* empty and stays empty, the active set is empty, and every sandbox that was
\* ready or active has been destroyed.
C14_ShutdownFinal ==
    (shutdowns >= 1 /\ spc = "idle") =>
        /\ pool = << >>
        /\ \A s \in 1..nextId : s \in Range(pool) \cup active => ~is_alive[s]

\* C15 (as claimed): every sandbox in a caller's hands wraps an isolated
\* container (network_mode none), never the local fallback.
C15_AcquiredIsolated ==
    \A c \in Callers : cpc[c] = "holding" => container[csb[c]] # "none"

----------------------------------------------------------------------------
(* Claims about the use of a sandbox, checked under SpecUse *)

\* the caller is at work in the sandbox it holds
Using(c) == cpc[c] \in {"holding", "exec_blocked"} \cup Returned

\* files of another task can be seen in sandbox s: in its container, left
\* there by the task that held it before; or, for a sandbox without a
\* container, under repo_path, written there through another sandbox
SeesForeignFiles(s) ==
    \/ container[s] = "isolated" /\ wsfiles[s] = "stale"
    \/ container[s] = "none" /\ hostrepo \ {s} # {}

\* C16 (as claimed): a file written into its sandbox by one task is never
\* visible in the sandbox another task, later or concurrent, works in.
C16_NoLeakBetweenTasks ==
    \A c \in Callers : Using(c) => ~SeesForeignFiles(csb[c])

\* C17 (as claimed): exec always returns, and a command that outlives the
\* timeout gives exit code 124 on the container path as on the local path:
\* no call returns the command's own exit code after the timeout has passed,
\* and no call stays blocked.
C17_ExecTimesOut ==
    \A c \in Callers : cpc[c] \notin {"ret_late", "exec_blocked"}

\* C18: destroy never raises: no release and no shutdown is ended by an
\* exception out of destroy, and a sandbox whose container could not be
\* stopped or removed is marked not alive all the same.
C18_DestroyNeverRaises ==
    /\ \A c \in Callers : cpc[c] # "rel_raised"
    /\ spc # "raised"
    /\ \A s \in Ids : container[s] = "orphan" => ~is_alive[s]

\* no shutdown was ever begun, so the container left behind is one whose
\* stop / remove failed inside release(reuse=False); that release has
\* returned to its caller
C18_Witness ==
    \E s \in Ids :
        /\ shutdowns = 0 /\ spc = "idle"
        /\ container[s] = "orphan" /\ relmode[s] = "destroy"
        /\ s \notin active /\ s \notin Range(pool)
        /\ \A c \in Callers : cpc[c] = "idle" /\ csb[c] = 0

----------------------------------------------------------------------------
(* Claims about DependencyDAG, checked under SpecDag *)

\* C19: after any sequence of add_node calls, re-insertions of an id with
\* other dependencies included, y is in reverse[x] exactly when x is in
\* forward[y].
C19_AdjacencySymmetric ==
    \A x, y \in DagIds : y \in reverse[x] <=> x \in forward[y]

\* an id has been inserted again with dependencies other than those it was
\* first given: its forward set holds more than its node now lists
C19_Witness ==
    \E y \in nodes :
        /\ forward[y] # dependencies[y]
        /\ dependencies[y] # {}
        /\ \E x \in forward[y] \ dependencies[y] : y \in reverse[x]

\* C20 (as claimed): if node b was added listing a dependency a, then for
\* every depth >= 1, a is among the dependencies returned for b and b is among
\* the dependents returned for a.
C20_DeclaredIsTraversed ==
    query.depth >= 1 =>
        /\ \A a \in DagIds : <<query.node_id, a>> \in declared
                => a \in Elems(query.dependencies)
        /\ \A b \in DagIds : <<b, query.node_id>> \in declared
                => b \in Elems(query.dependents)

\* C20 (amended): if node b was added listing a dependency a other than b
\* itself, then for every depth >= 1, b is among the dependents returned for
\* a, and a is among the dependencies returned for b when a is itself a node
\* of the graph.
C20_DeclaredNodeIsTraversed ==
    query.depth >= 1 =>
        /\ \A a \in DagIds : (<<query.node_id, a>> \in declared /\ a # query.node_id
                                /\ a \in nodes)
                => a \in Elems(query.dependencies)
        /\ \A b \in DagIds : (<<b, query.node_id>> \in declared /\ b # query.node_id)
                => b \in Elems(query.dependents)

\* the query was made for a node at depth 1 that lists another node and is
\* listed by a third: the first is returned as a dependency, the third as a
\* dependent
C20_Witness ==
    /\ query.depth = 1
    /\ \E a, b \in nodes :
          /\ a # query.node_id /\ b # query.node_id /\ a # b
          /\ <<query.node_id, a>> \in declared
          /\ <<b, query.node_id>> \in declared
          /\ a \in Elems(query.dependencies)
          /\ b \in Elems(query.dependents)

----------------------------------------------------------------------------
(* More claims about MinionOrchestrator.run, checked under SpecRun *)

\* what run() does with a patch: write_file and the two gates
PatchEvents == {"write", "write_raise"} \cup LintEvents \cup TestEvents

\* C25: an attempt in which the Planner returns an empty patch writes nothing
\* and runs neither gate, feeds an error back to the Planner in that attempt,
\* and is counted: any later call of the Planner belongs to a later attempt.
C25_EmptyPatchConsumesAttempt ==
    \A i \in DOMAIN trace :
        trace[i].ev = "plan_empty" =>
            /\ i + 1 \in DOMAIN trace
            /\ trace[i + 1].ev = "feed_error" /\ trace[i + 1].att = trace[i].att
            /\ \A j \in DOMAIN trace :
                  /\ (trace[j].att = trace[i].att) => trace[j].ev \notin PatchEvents
                  /\ (j > i /\ trace[j].ev \in PlannerEvents) => trace[j].att > trace[i].att
            /\ trace[i].att <= MAX_RETRIES + 1

\* a finished run whose first attempt got an empty patch and whose second
\* attempt got a patch that passed both gates
C25_Witness ==
    /\ outcome = "result" /\ result.status = "SUCCESS" /\ result.attempts = 2
    /\ Has("plan_empty", 1) /\ Has("feed_error", 1)
    /\ Has("plan_patch", 2) /\ Has("write", 2) /\ Has("test_pass", 2)

----------------------------------------------------------------------------
(* More claims about DependencyDAG, checked under SpecDag *)

\* the ids at most k edges of adj away from s
RECURSIVE Within(_, _, _)
Within(adj, s, k) ==
    IF k = 0 THEN {s}
    ELSE LET w == Within(adj, s, k - 1)
         IN  w \cup UNION {adj[x] : x \in w \cap DOMAIN adj}

\* no node depends on itself, directly or through other nodes
Acyclic ==
    \A n \in nodes :
        \A d \in forward[n] : n \notin Within(forward, d, Cardinality(DOMAIN forward))

\* where id stands in the sequence q (0: nowhere)
Pos(q, id) == IF id \in Elems(q) THEN CHOOSE i \in DOMAIN q : q[i] = id ELSE 0

\* C21 (as claimed): on an acyclic graph topological_sort lists every node,
\* and each of them only after all of its dependencies that are nodes.
C21_DependenciesFirst ==
    (topo.called /\ Acyclic) =>
        \A n \in nodes :
            /\ n \in Elems(topo.order)
            /\ \A d \in forward[n] \cap nodes : Pos(topo.order, d) < Pos(topo.order, n)

\* C27 (as claimed): add_node supersedes: the forward set of a node is
\* exactly what the node stored under that id lists, and the reverse map holds
\* no edge that only a superseded node listed.
C27_Supersedes ==
    \A id \in nodes :
        /\ forward[id] = dependencies[id]
        /\ \A x \in DOMAIN reverse : id \in reverse[x] => x \in dependencies[id]

\* the sequence q lists nothing twice
NoDuplicates(q) == Cardinality(Elems(q)) = Len(q)

\* the nodes other than s at most k edges of adj away from s
NodesWithin(adj, s, k) == (Within(adj, s, k) \cap nodes) \ {s}

\* C28: get_dependencies(id, depth) and get_dependents(id, depth) return
\* exactly the nodes at distance 1..depth from id over the forward and over
\* the reverse edges, each once and never id itself; nothing for depth 0.
C28_ExactlyWithinDepth ==
    query.node_id # "" =>
        /\ Elems(query.dependencies) = NodesWithin(forward, query.node_id, query.depth)
        /\ Elems(query.dependents) = NodesWithin(reverse, query.node_id, query.depth)
        /\ NoDuplicates(query.dependencies) /\ NoDuplicates(query.dependents)
        /\ query.depth = 0 => query.dependencies = << >> /\ query.dependents = << >>

\* a depth-1 query for a node that is on a cycle: its direct dependency a is
\* returned, the node b two edges away is not, and the node itself, one more
\* edge away, is not
C28_Witness ==
    /\ query.depth = 1
    /\ query.node_id \in nodes
    /\ \E a, b \in nodes :
          /\ a # b /\ a # query.node_id /\ b # query.node_id
          /\ forward[query.node_id] = {a} /\ forward[a] = {b} /\ forward[b] = {query.node_id}
          /\ query.dependencies = <<a>>
          /\ query.dependents = <<b>>

\* C29 (as claimed): a query for an id that is not a node returns nothing,
\* whether or not nodes list that id as a dependency.
C29_AbsentIdGivesNothing ==
    (query.node_id # "" /\ query.node_id \notin nodes) =>
        query.dependencies = << >> /\ query.dependents = << >>

----------------------------------------------------------------------------
(* Claims about change detection, checked under SpecFiles *)

\* C22 (as claimed): when get_changed_files is called twice with no file
\* written or removed between the two calls, the second call returns nothing.
C22_SecondCallEmpty ==
    (call.op = "get_changed_files" /\ call.again) => call.result = << >>

----------------------------------------------------------------------------
(* Claims about test selection and context hydration, checked under SpecEngine *)

\* C23: get_test_selection is monotonic: every path returned for a list X of
\* changed files is returned for every list Y that holds all the files of X.
C23_SelectTestsMonotonic ==
    call.op = "get_test_selection" =>
        \A Y \in ArgLists :
            Elems(call.arg) \subseteq Elems(Y) => Elems(call.result) \subseteq get_test_selection(Y)

\* tests were selected for one changed file, and naming a second file with it
\* selects those tests and more
C23_Witness ==
    /\ call.op = "get_test_selection"
    /\ Len(call.arg) = 1
    /\ call.result # << >>
    /\ \E p \in DOMAIN disk :
          /\ Elems(call.result) \subseteq get_test_selection(Append(call.arg, p))
          /\ get_test_selection(Append(call.arg, p)) # Elems(call.result)

\* the file paths of the test-path nodes at distance 1..k, over the reverse
\* edges, from the module id of one of the files
TestsWithin(files, k) ==
    {filepath[n] :
       n \in {m \in UNION {NodesWithin(reverse, module_id(files[i]), k) : i \in DOMAIN files} :
                IsTestPath(filepath[m])}}

\* C24: get_test_selection returns, each once, exactly the file paths of the
\* test-path nodes reachable over reverse edges within 5 hops of the module id
\* of a changed file; on the graph A <- B <- testB of the files r/A.py, r/B.py
\* and r/testB.py, the selection for r/A.py is r/testB.py alone.
C24_SelectTestsExact ==
    call.op = "get_test_selection" =>
        /\ Elems(call.result) = TestsWithin(call.arg, 5)
        /\ NoDuplicates(call.result)
        /\ (nodes = {"r.A", "r.B", "r.testB"} /\ call.arg = <<"r/A.py">>)
              => call.result = <<"r/testB.py">>

\* on the chain of imports the selection for r/A.py holds the test 5 hops
\* away and not the one 6 hops away
C24_Witness ==
    /\ call.op = "get_test_selection"
    /\ call.arg = <<"r/A.py">>
    /\ {"r.TestD", "r.testE"} \subseteq nodes
    /\ Elems(call.result) = {"r/testB.py", "r/TestD.py"}

\* C26 (as claimed): affected_tests of hydrate_for_task holds, for every
\* target file, the file path of every test-path node within reverse depth 3
\* of the module id of that file.
C26_TestsOfEveryTarget ==
    call.op = "hydrate_for_task" =>
        \A i \in DOMAIN call.arg :
            \A n \in NodesWithin(reverse, module_id(call.arg[i]), 3) :
                contains(lower(filepath[n]), "test") => filepath[n] \in Elems(call.result)

\* C30 (as claimed): no two nodes handed to add_node during one build carry
\* the same id unless they were made from the same unit: the same file path
\* and the same qualified name.
C30_UniqueIds ==
    \A i \in DOMAIN indexed : \A j \in DOMAIN indexed :
        indexed[i].id = indexed[j].id
            => /\ indexed[i].filepath = indexed[j].filepath
               /\ indexed[i].qualname = indexed[j].qualname

----------------------------------------------------------------------------
(* Claims about the order of results, checked under SpecDag *)

\* the least number of edges of adj from s to t (t within reach of s)
Dist(adj, s, t) ==
    CHOOSE k \in 0..Cardinality(DOMAIN adj) :
        /\ t \in Within(adj, s, k)
        /\ \A j \in 0..(k - 1) : t \notin Within(adj, s, j)

\* the sequence q of nodes never has a node follow one that is further from s
NearestFirst(adj, s, q) ==
    \A i \in DOMAIN q : \A j \in DOMAIN q :
        i < j => Dist(adj, s, q[i]) <= Dist(adj, s, q[j])

\* C32 (as claimed): what get_dependencies and get_dependents return for a
\* query is fixed by the add_node calls that built the graph: the same
\* sequences, in the same order, wherever the graph was built; and in them no
\* node follows a node at a larger hop distance.
C32_Deterministic ==
    query.node_id # "" =>
        /\ \A ord \in SetOrders :
              /\ get_dependencies(ord, query.node_id, query.depth) = query.dependencies
              /\ get_dependents(ord, query.node_id, query.depth) = query.dependents
        /\ NearestFirst(forward, query.node_id, query.dependencies)
        /\ NearestFirst(reverse, query.node_id, query.dependents)

\* a node of the graph lies on a cycle of dependencies
OnCycle(n) == \E d \in forward[n] : n \in Within(forward, d, Cardinality(DOMAIN forward))

\* C31: topological_sort always returns, and never lists a node twice; on an
\* acyclic graph it lists every node exactly once, and on a graph with a cycle
\* what it returns holds nodes only, none of them lying on a cycle.
C31_TopoTerminates ==
    /\ topological_sort # {}
    /\ topo.called =>
          /\ NoDuplicates(topo.order)
          /\ Elems(topo.order) \subseteq nodes
          /\ Acyclic => Elems(topo.order) = nodes
          /\ \A n \in nodes : OnCycle(n) => n \notin Elems(topo.order)

\* topological_sort returned some nodes of a graph with a cycle, and not all
C31_Witness ==
    /\ topo.called
    /\ ~Acyclic
    /\ topo.order # << >>
    /\ Elems(topo.order) # nodes

----------------------------------------------------------------------------
(* More claims about MinionOrchestrator.run, checked under SpecRun *)

\* C35 (as claimed): every TaskResult reports the attempts the run used: a
\* FAILED result built after a fault in attempt k reports k, a SUCCESS result
\* the index of the passing attempt, an ESCALATED result MAX_RETRIES + 1.
C35_AttemptsReported ==
    /\ result.status = "FAILED" => result.attempts = attempt + 1
    /\ result.status = "SUCCESS" => result.attempts = attempt + 1
    /\ result.status = "ESCALATED" => result.attempts = MAX_RETRIES + 1

\* C40: once the Publisher has failed, after all gates passed, the result of
\* the run is SUCCESS with the index of the passing attempt and the
\* placeholder as artifact reference, the sandbox is released exactly once,
\* and run() returns that result unless the release itself raises.
C40_PublishFailureKeepsSuccess ==
    Count({"publish_fail"}) > 0 =>
        /\ Count({"publish_fail"}) = 1
        /\ Has("test_pass", attempt + 1)
        /\ pc \in {"finally", "done"}
        /\ result.set = 1
        /\ result.status = "SUCCESS"
        /\ result.attempts = attempt + 1
        /\ result.pr_url = "placeholder"
        /\ ReleaseCalls <= 1
        /\ pc = "done" =>
              /\ ReleaseCalls = 1
              /\ Count({"release_raise"}) = 0 => outcome = "result"

\* a run whose second attempt passed both gates, whose Publisher then failed,
\* and which returned after its release
C40_Witness ==
    /\ pc = "done"
    /\ outcome = "result"
    /\ Count({"publish_fail"}) = 1
    /\ result.attempts = 2
    /\ ReleaseCalls = 1

\* C37 (as claimed): the Planner never raises: every call of
\* plan_and_write_code ends with a patch, empty when the backend cannot be
\* reached, so no run ends FAILED because of the Planner.
C37_PlannerNeverRaises ==
    /\ \A i \in At(PlannerEvents) : trace[i].ev \in {"plan_empty", "plan_patch"}
    /\ (result.status = "FAILED" /\ attempt >= 0) =>
          \E i \in At(CaughtEvents \ {"plan_raise"}) : trace[i].att = attempt + 1

----------------------------------------------------------------------------
(* More claims about SandboxPool *)

\* C33 (as claimed), checked under SpecUse: a sandbox that release(reuse=True)
\* has put into the ready queue holds no file of the task that used it, at
\* the moment it is enqueued and for as long as it waits there.
C33_RequeuedClean ==
    \A s \in Range(pool) : relmode[s] = "reuse" => wsfiles[s] = "clean"

\* C38 (as claimed), checked under SpecPool: the ready queue never holds more
\* than pool_size sandboxes, whatever acquires, releases and replenishment
\* threads have run.
C38_ReadyWithinCapacity == Len(pool) <= pool_size

\* the step thread t is in, or has just ended when it is the last one of its
\* operation ("none" before its first operation)
Doing(t) == IF thr_op[t] = "idle" THEN "none" ELSE Steps(thr_op[t])[thr_at[t]]

\* the steps that change which sandboxes are ready or active
MembershipSteps == {"lock", "member", "unlock"}

\* C34 (as claimed), checked under SpecLock: while a thread holds the pool's
\* lock it is in a step that changes the membership of the active set, never
\* in a provisioning, a command execution, a teardown or a queue wait.
C34_LockGuardsMembershipOnly ==
    \A t \in Threads : lock = t => Doing(t) \in MembershipSteps

\* C39 (as claimed), checked under SpecGetPool: at most one SandboxPool is
\* ever constructed and every get_pool call returns the same instance.
C39_OnePool ==
    /\ constructed <= 1
    /\ \A t \in Makers : \A u \in Makers : (got[t] # 0 /\ got[u] # 0) => got[t] = got[u]

----------------------------------------------------------------------------
(* A claim about the tools of a task, checked under SpecTools *)

\* C36 (as claimed): a handler that runs for the Planner of a task is the
\* handler of a tool of the subset get_tools_for_domain returned for the
\* domain of the task: a tool of that domain, of filesystem or of memory.
C36_OnlyCuratedToolsRun ==
    executed.ran =>
        /\ executed.tool_name \in tools
        /\ Registry[executed.tool_name] \in {domain, "filesystem", "memory"}

============================================================================
